---- MODULE Spec2Model ----
(***************************************************************************)
(* A model of src/licenseChecker.ts: the license resolution pipeline of    *)
(* the npm dependency license checker.                                     *)
(*                                                                         *)
(* Strings are sequences of one-character strings, so that the string      *)
(* operations of the source (toLowerCase, startsWith, template literals,   *)
(* semver.coerce, join) are computed character by character.  JavaScript   *)
(* values whose run-time type matters (a license, which the registry may   *)
(* send as a string, as an object or not at all) are tagged records.       *)
(***************************************************************************)
EXTENDS Naturals, Sequences, FiniteSets, TLC

VARIABLES
    dir,          \* the entries of the packageJsons directory, in readdir order
    type,         \* the dependency kind of the pass checkDependencies is running
    pc,           \* where init/checkDependencies/fetchLicenseForPackage stands
    packages,     \* checkDependencies' `packages` array
    idx,          \* position of the for-of loop over `packages` (1-based)
    cache,        \* fetchLicenseForPackage.prototype.cache
    call,         \* the fetchLicenseForPackage call in progress
    result,       \* the value the last fetchLicenseForPackage call returned
    error,        \* the error that ended the run ("none" while there is none)
    tables,       \* the arrays handed to console.table, in order
    csvFiles,     \* the files written by fs.writeFileSync, in order
    lookups,      \* history: one entry per completed fetchLicenseForPackage call
    netCalls,     \* history: the cache keys of the axios.get calls issued, in order
    netCompleted, \* history: number of axios.get calls that have completed
    delayElapsed, \* history: a sleep has completed since the last axios.get completed
    assignments   \* history: one entry per executed `pkg.packageLicense = ...`

vars == <<dir, type, pc, packages, idx, cache, call, result, error, tables,
          csvFiles, lookups, netCalls, netCompleted, delayElapsed, assignments>>

-----------------------------------------------------------------------------
(* Bounds *)

\* The largest number of entries of the packageJsons directory.
MaxManifests == 2

-----------------------------------------------------------------------------
(* Strings *)

UpperCaseLetters ==
    <<"A","B","C","D","E","F","G","H","I","J","K","L","M",
      "N","O","P","Q","R","S","T","U","V","W","X","Y","Z">>

LowerCaseLetters ==
    <<"a","b","c","d","e","f","g","h","i","j","k","l","m",
      "n","o","p","q","r","s","t","u","v","w","x","y","z">>

Digits == {"0","1","2","3","4","5","6","7","8","9"}

LowerChar(c) ==
    IF \E i \in 1..26 : UpperCaseLetters[i] = c
    THEN LowerCaseLetters[CHOOSE i \in 1..26 : UpperCaseLetters[i] = c]
    ELSE c

\* String.prototype.toLowerCase
ToLowerCase(s) == [i \in 1..Len(s) |-> LowerChar(s[i])]

\* String.prototype.startsWith
StartsWith(s, prefix) ==
    /\ Len(s) >= Len(prefix)
    /\ SubSeq(s, 1, Len(prefix)) = prefix

\* String.prototype.endsWith
EndsWith(s, suffix) ==
    /\ Len(s) >= Len(suffix)
    /\ SubSeq(s, Len(s) - Len(suffix) + 1, Len(s)) = suffix

\* String.prototype.replace with a string pattern: the first occurrence only.
Replace(s, pat, rep) ==
    LET occ == {i \in 1..(Len(s) + 1) :
                    /\ i + Len(pat) - 1 <= Len(s)
                    /\ SubSeq(s, i, i + Len(pat) - 1) = pat}
    IN  IF occ = {} THEN s
        ELSE LET i == CHOOSE j \in occ : \A k \in occ : j <= k
             IN  SubSeq(s, 1, i - 1) \o rep \o SubSeq(s, i + Len(pat), Len(s))

\* path.extname: from the last "." of the name to its end; empty when there is
\* no "." or the only one starts the name.
ExtName(filename) ==
    LET dots == {i \in 1..Len(filename) : filename[i] = "."}
    IN  IF dots = {} THEN <<>>
        ELSE LET i == CHOOSE j \in dots : \A k \in dots : k <= j
             IN  IF i = 1 THEN <<>> ELSE SubSeq(filename, i, Len(filename))

-----------------------------------------------------------------------------
(* JavaScript values *)

JsStr(s) == [tag |-> "string", val |-> s]
JsUndefined == [tag |-> "undefined"]
JsNull == [tag |-> "null"]
\* An object of which only the `type` property is read.
JsObj(t) == [tag |-> "object", type |-> t]

\* ToBoolean, as applied by `||` and `if`.
Truthy(v) ==
    CASE v.tag = "string" -> v.val # <<>>
      [] v.tag = "object" -> TRUE
      [] OTHER -> FALSE

\* a || b
Or(a, b) == IF Truthy(a) THEN a ELSE b

-----------------------------------------------------------------------------
(* String literals of the source *)

FilePrefix == <<"f","i","l","e",":">>
LinkPrefix == <<"l","i","n","k",":">>
JsonExt == <<".","j","s","o","n">>
Blank == <<"[","B","L","A","N","K","]">>
SkippedOpen == <<"[","S","K","I","P","P","E","D",":"," ">>
ErrorOpen == <<"[","E","R","R","O","R",":"," ">>
UndefinedText == <<"u","n","d","e","f","i","n","e","d">>
UnrecognizedLicense == "Unrecognized package license definition."
EmptyDataTypeError == "TypeError: Cannot convert undefined or null to object"

-----------------------------------------------------------------------------
(* The semver package, as far as getCleanNpmPackageVersion uses it.  The   *)
(* model covers specifiers without surrounding white space, without        *)
(* prerelease or build suffixes and with numbers of at most 16 digits.     *)

\* String.prototype.charAt: the empty string beyond the end.
CharAt(s, i) == IF i >= 1 /\ i <= Len(s) THEN s[i] ELSE ""

RECURSIVE DigitRunLen(_, _)
\* The number of consecutive digits of s from position i on.
DigitRunLen(s, i) ==
    IF CharAt(s, i) \in Digits THEN 1 + DigitRunLen(s, i + 1) ELSE 0

RECURSIVE StripLeadingZeros(_)
\* A digit run read as a number and printed again.
StripLeadingZeros(run) ==
    IF Len(run) > 1 /\ run[1] = "0" THEN StripLeadingZeros(Tail(run)) ELSE run

\* A numeric identifier of a strict version: 0|[1-9]\d*
IsNumericIdentifier(run) == Len(run) > 0 /\ (Len(run) = 1 \/ run[1] # "0")

\* semver.valid on a string: the version when the string is [v]x.y.z, else null.
SemverValid(v) ==
    LET s  == IF CharAt(v, 1) = "v" THEN Tail(v) ELSE v
        n1 == DigitRunLen(s, 1)
        n2 == DigitRunLen(s, n1 + 2)
        n3 == DigitRunLen(s, n1 + n2 + 3)
    IN  IF /\ n1 > 0 /\ n2 > 0 /\ n3 > 0
           /\ CharAt(s, n1 + 1) = "."
           /\ CharAt(s, n1 + n2 + 2) = "."
           /\ n1 + n2 + n3 + 2 = Len(s)
           /\ IsNumericIdentifier(SubSeq(s, 1, n1))
           /\ IsNumericIdentifier(SubSeq(s, n1 + 2, n1 + n2 + 1))
           /\ IsNumericIdentifier(SubSeq(s, n1 + n2 + 3, Len(s)))
        THEN JsStr(s)
        ELSE JsNull

\* semver.coerce: the first run of digits of the string, with up to two
\* further dot-separated runs, completed to x.y.z; null when the string holds
\* no digit.  The result stands for the SemVer object by its version string.
SemverCoerce(v) ==
    LET starts == {i \in 1..Len(v) : v[i] \in Digits}
    IN  IF starts = {} THEN JsNull
        ELSE
        LET p  == CHOOSE i \in starts : \A k \in starts : i <= k
            n1 == DigitRunLen(v, p)
            q  == p + n1
            n2 == IF CharAt(v, q) = "." THEN DigitRunLen(v, q + 1) ELSE 0
            r  == IF n2 > 0 THEN q + 1 + n2 ELSE q
            n3 == IF n2 > 0 /\ CharAt(v, r) = "."
                  THEN DigitRunLen(v, r + 1) ELSE 0
            major == StripLeadingZeros(SubSeq(v, p, q - 1))
            minor == IF n2 > 0 THEN StripLeadingZeros(SubSeq(v, q + 1, q + n2))
                     ELSE <<"0">>
            patch == IF n3 > 0 THEN StripLeadingZeros(SubSeq(v, r + 1, r + n3))
                     ELSE <<"0">>
        IN  JsStr(major \o <<".">> \o minor \o <<".">> \o patch)

\* semver.valid on the result of semver.coerce: null stays null.
SemverValidCoerced(c) == IF c.tag = "string" THEN SemverValid(c.val) ELSE JsNull

\* getCleanNpmPackageVersion
GetCleanNpmPackageVersion(packageJsonVersion) ==
    Or(SemverValid(packageJsonVersion),
       Or(SemverValidCoerced(SemverCoerce(packageJsonVersion)),
          JsStr(packageJsonVersion))).val

-----------------------------------------------------------------------------
(* Inputs: the packageJsons directory and the registry's answers *)

LeftPad == <<"l","e","f","t","-","p","a","d">>
RightPad == <<"r","i","g","h","t","-","p","a","d">>
Foo == <<"f","o","o">>
Bar == <<"b","a","r">>

Exact100 == <<"1",".","0",".","0">>
Caret100 == <<"^","1",".","0",".","0">>
FileFoo == <<"f","i","l","e",":",".",".","/","f","o","o">>
LinkBarUpper == <<"L","I","N","K",":",".",".","/","b","a","r">>
FileBaz123 ==
    <<"f","i","l","e",":",".",".","/","b","a","z","-","1",".","2",".","3">>

Dep(n, v) == [name |-> n, version |-> v]

\* a.json declares dependencies only.
ManifestA ==
    [filename |-> <<"a",".","j","s","o","n">>,
     data |-> [dependencies |-> <<Dep(LeftPad, Exact100), Dep(Foo, FileFoo)>>]]

\* b.json declares both kinds.
ManifestB ==
    [filename |-> <<"b",".","j","s","o","n">>,
     data |-> [dependencies |-> <<Dep(LeftPad, Caret100), Dep(RightPad, Exact100)>>,
               devDependencies |-> <<Dep(Bar, LinkBarUpper), Dep(LeftPad, Exact100)>>]]

\* c.json declares devDependencies only.
ManifestC ==
    [filename |-> <<"c",".","j","s","o","n">>,
     data |-> [devDependencies |-> <<Dep(LeftPad, FileBaz123)>>]]

\* A file of the directory that is no manifest.
NotesTxt ==
    [filename |-> <<"n",".","t","x","t">>,
     data |-> [dependencies |-> <<>>]]

DirEntries == {ManifestA, ManifestB, ManifestC, NotesTxt}

\* The directory listings: up to MaxManifests entries with distinct names.
Directories ==
    {d \in UNION {[1..n -> DirEntries] : n \in 0..MaxManifests} :
        \A i, j \in 1..Len(d) : d[i] = d[j] => i = j}

Mit == <<"M","I","T">>
Isc == <<"I","S","C">>
MitOrX11 == <<"M","I","T",",","X","1","1">>
Status404 == <<"4","0","4">>
NotFound == <<"N","o","t"," ","F","o","u","n","d">>

\* What axios.get may end with: a response whose body carries a license
\* (a string, an object with or without a string `type`, or none), or a
\* rejection (with the registry's non-2xx response, or with no response).
Fulfilled(license) == [ok |-> TRUE, license |-> license]
Rejected(response) == [ok |-> FALSE, response |-> response]
HttpResponse(status, statusText) ==
    [tag |-> "object", status |-> status, statusText |-> statusText]

RegistryAnswers ==
    { Fulfilled(JsStr(Mit)),
      Fulfilled(JsStr(MitOrX11)),
      Fulfilled(JsStr(<<>>)),
      Fulfilled(JsUndefined),
      Fulfilled(JsObj(JsStr(Isc))),
      Fulfilled(JsObj(JsStr(<<>>))),
      Fulfilled(JsObj(JsUndefined)),
      Rejected(HttpResponse(Status404, NotFound)),
      Rejected(JsUndefined) }

\* The entry of a lookup that issued no request.
NoRequest == Rejected(JsNull)

-----------------------------------------------------------------------------
(* fetchLicenseForPackage *)

\* Variant: the key is the package name alone.
CacheKeyNameOnly(packageName, packageVersion) == packageName

\* `${packageName}@${packageVersion}`
CacheKey(packageName, packageVersion) == packageName \o <<"@">> \o packageVersion

\* cache[cacheKey]
CacheGet(c, key) == IF key \in DOMAIN c THEN c[key] ELSE JsUndefined

\* Variant: the cache holds the text of the value, as a string-keyed store of
\* strings would.
CachePutAsText(c, key, value) ==
    LET text == IF value.tag = "object"
                THEN JsStr(<<"[","o","b","j","e","c","t"," ","O","b","j","e","c","t","]">>)
                ELSE value
    IN  [k \in (DOMAIN c) \cup {key} |-> IF k = key THEN text ELSE c[k]]

\* Variant: the cache object is created anew by every write.
CachePutIntoFreshCache(c, key, value) == [k \in {key} |-> value]

\* cache[cacheKey] = value
CachePut(c, key, value) ==
    [k \in DOMAIN c \cup {key} |-> IF k = key THEN value ELSE c[k]]

\* Variant: the prefix test without toLowerCase.
IsLocalSpecifierCaseSensitive(packageVersion) ==
    \/ StartsWith(packageVersion, FilePrefix)
    \/ StartsWith(packageVersion, LinkPrefix)

\* packageVersion.toLowerCase().startsWith('file:') || ...startsWith('link:')
IsLocalSpecifier(packageVersion) ==
    \/ StartsWith(ToLowerCase(packageVersion), FilePrefix)
    \/ StartsWith(ToLowerCase(packageVersion), LinkPrefix)

\* `[SKIPPED: ${packageVersion}]`
SkippedMarker(packageVersion) == SkippedOpen \o packageVersion \o <<"]">>

\* `${x}` of axiosError.response?.status and ...?.statusText
OptionalText(response, field) ==
    IF response.tag = "object" THEN response[field] ELSE UndefinedText

\* Variant: the marker carries the status only.
ErrorMarkerStatusOnly(response) ==
    ErrorOpen \o OptionalText(response, "status") \o <<"]">>

\* `[ERROR: ${axiosError.response?.status}: ${axiosError.response?.statusText}]`
ErrorMarker(response) ==
    ErrorOpen \o OptionalText(response, "status") \o <<":"," ">>
              \o OptionalText(response, "statusText") \o <<"]">>

\* Variant: the request is issued without the sleep before it.
AfterCacheMissNoSleep == "get"

\* Where a call goes when it is neither a cache hit nor a local reference:
\* to await sleep(...).
AfterCacheMiss == "sleep"

\* Variant: the catch block writes its marker to the cache as well.
FetchOutcomeErrorsCached(answer) ==
    IF answer.ok
    THEN [threw |-> FALSE, store |-> TRUE, value |-> Or(answer.license, JsStr(Blank))]
    ELSE [threw |-> FALSE, store |-> TRUE, value |-> JsStr(ErrorMarker(answer.response))]

\* Variant: the rejection of axios.get leaves the function.
FetchOutcomeErrorsRethrown(answer) ==
    IF answer.ok
    THEN [threw |-> FALSE, store |-> TRUE, value |-> Or(answer.license, JsStr(Blank))]
    ELSE [threw |-> TRUE, store |-> FALSE, value |-> JsStr(ErrorMarker(answer.response))]

\* Variant: the try block returns the license without caching it.
FetchOutcomeNothingCached(answer) ==
    IF answer.ok
    THEN [threw |-> FALSE, store |-> FALSE, value |-> Or(answer.license, JsStr(Blank))]
    ELSE [threw |-> FALSE, store |-> FALSE, value |-> JsStr(ErrorMarker(answer.response))]

\* The try/catch around axios.get: the value returned, whether it is written
\* to the cache, and whether an error leaves the function.
FetchOutcome(answer) ==
    IF answer.ok
    THEN [threw |-> FALSE, store |-> TRUE, value |-> Or(answer.license, JsStr(Blank))]
    ELSE [threw |-> FALSE, store |-> FALSE, value |-> JsStr(ErrorMarker(answer.response))]

-----------------------------------------------------------------------------
(* getDependencies *)

\* packageData[type] is there: an object, even an empty one, is truthy.
\* The version specifiers the manifests declare, and what
\* getCleanNpmPackageVersion makes of each.
Specifiers == {Exact100, Caret100, FileFoo, LinkBarUpper, FileBaz123}

CleanVersionOf == [v \in Specifiers |-> GetCleanNpmPackageVersion(v)]

HasKind(data, kind) == kind \in DOMAIN data

IsJsonFilename(entry) == EndsWith(entry.filename, JsonExt)

\* The records one manifest contributes: none when it lacks the kind.
RecordsOf(entry, kind) ==
    IF ~HasKind(entry.data, kind) THEN <<>>
    ELSE [i \in 1..Len(entry.data[kind]) |->
            [projectName |-> Replace(entry.filename, ExtName(entry.filename), <<>>),
             packageName |-> entry.data[kind][i].name,
             packageVersion |-> CleanVersionOf[entry.data[kind][i].version]]]

RECURSIVE AllDependencies(_, _)
\* Variant: each manifest's records are put before those gathered so far.
AllDependenciesPrepended(files, kind) ==
    IF files = <<>> THEN <<>>
    ELSE AllDependencies(Tail(files), kind) \o RecordsOf(Head(files), kind)

\* allDependencies after the loop over the files: each manifest's records
\* pushed in turn.
AllDependencies(files, kind) ==
    IF files = <<>> THEN <<>>
    ELSE RecordsOf(Head(files), kind) \o AllDependencies(Tail(files), kind)

GetDependencies(directory, kind) ==
    AllDependencies(SelectSeq(directory, IsJsonFilename), kind)

-----------------------------------------------------------------------------
(* checkDependencies *)

\* Variant: an object without a string `type` is reported as [BLANK].
NormalizeLicenseNeverThrows(license) ==
    IF license.tag = "object"
    THEN IF license.type.tag = "string"
         THEN [threw |-> FALSE, value |-> license.type]
         ELSE [threw |-> FALSE, value |-> JsStr(Blank)]
    ELSE [threw |-> FALSE, value |-> license]

\* Variant: an object with a string `type` is left as it is.
NormalizeLicenseKeepsObject(license) ==
    IF license.tag = "object"
    THEN IF license.type.tag = "string"
         THEN [threw |-> FALSE, value |-> license]
         ELSE [threw |-> TRUE, value |-> license]
    ELSE [threw |-> FALSE, value |-> license]

\* The shape check after the lookup: an object's string `type` replaces it,
\* an object without one ends the run.
NormalizeLicense(license) ==
    IF license.tag = "object"
    THEN IF license.type.tag = "string"
         THEN [threw |-> FALSE, value |-> license.type]
         ELSE [threw |-> TRUE, value |-> license]
    ELSE [threw |-> FALSE, value |-> license]

\* The values assigned to pkg.packageLicense in one iteration, in order: the
\* value the lookup returned and, when that is an object with a string `type`,
\* the `type` that overwrites it.
LicenseWrites(license) ==
    IF license.tag = "object" /\ license.type.tag = "string"
    THEN <<license, license.type>>
    ELSE <<license>>

\* Variant: the record is replaced by one that holds the license only.
SetLicenseDropsFields(pkg, value) == [packageLicense |-> value]

\* pkg.packageLicense = value
SetLicense(pkg, value) == [packageLicense |-> value] @@ pkg

\* Variant: the loop skips every other record.
NextIndexSkips(i) == i + 2

\* Variant: the loop stays on the record it has just resolved.
NextIndexStays(i) == i

\* The for-of loop moves to the next record.
NextIndex(i) == i + 1

\* toCsv reads Object.keys(data[0]): a TypeError when data is empty.
ToCsvThrows(data) == Len(data) = 0

\* The keys of a record in insertion order: the three of the object literal of
\* getDependencies, then packageLicense, which checkDependencies adds.
FieldOrder == <<"projectName", "packageName", "packageVersion", "packageLicense">>

FieldText(key) ==
    CASE key = "projectName" -> <<"p","r","o","j","e","c","t","N","a","m","e">>
      [] key = "packageName" -> <<"p","a","c","k","a","g","e","N","a","m","e">>
      [] key = "packageVersion" ->
            <<"p","a","c","k","a","g","e","V","e","r","s","i","o","n">>
      [] key = "packageLicense" ->
            <<"p","a","c","k","a","g","e","L","i","c","e","n","s","e">>

IsKeyOf(obj, key) == key \in DOMAIN obj

\* Object.keys(obj)
ObjectKeys(obj) ==
    LET Has(key) == IsKeyOf(obj, key)
        keys == SelectSeq(FieldOrder, Has)
    IN  [i \in 1..Len(keys) |-> FieldText(keys[i])]

\* The text Array.prototype.join gives an element: a string is itself,
\* undefined and null are empty, an object is [object Object].
JoinText(v) ==
    CASE v.tag = "string" -> v.val
      [] v.tag = "object" ->
            <<"[","o","b","j","e","c","t"," ","O","b","j","e","c","t","]">>
      [] OTHER -> <<>>

\* Object.values(obj), each as join prints it.
ObjectValues(obj) ==
    LET Has(key) == IsKeyOf(obj, key)
        keys == SelectSeq(FieldOrder, Has)
    IN  [i \in 1..Len(keys) |->
            IF keys[i] = "packageLicense" THEN JoinText(obj[keys[i]])
            ELSE obj[keys[i]]]

\* Array.prototype.join
Join(texts, sep) ==
    LET joined[n \in 0..Len(texts)] ==
            IF n = 0 THEN <<>>
            ELSE IF n = 1 THEN texts[1]
            ELSE joined[n - 1] \o sep \o texts[n]
    IN  joined[Len(texts)]

\* Variant: the rows without the header line.
ToCsvWithoutHeader(data) ==
    Join([i \in 1..Len(data) |-> Join(ObjectValues(data[i]), <<",">>)], <<"\n">>)

\* toCsv, for a non-empty array
ToCsv(data) ==
    LET header == Join(ObjectKeys(data[1]), <<",">>)
        rows   == Join([i \in 1..Len(data) |-> Join(ObjectValues(data[i]), <<",">>)],
                       <<"\n">>)
    IN  header \o <<"\n">> \o rows

-----------------------------------------------------------------------------
(* The run: init calls checkDependencies for 'dependencies', then for      *)
(* 'devDependencies'; an error that leaves checkDependencies ends the run. *)

NoCall == [name |-> <<>>, version |-> <<>>, slept |-> FALSE, requested |-> FALSE]

Init ==
    /\ dir \in Directories
    /\ type = "dependencies"
    /\ pc = "start"
    /\ packages = <<>>
    /\ idx = 1
    /\ cache = <<>>
    /\ call = NoCall
    /\ result = JsUndefined
    /\ error = "none"
    /\ tables = <<>>
    /\ csvFiles = <<>>
    /\ lookups = <<>>
    /\ netCalls = <<>>
    /\ netCompleted = 0
    /\ delayElapsed = FALSE
    /\ assignments = <<>>

\* The history entry of a completed fetchLicenseForPackage call.
LookupEntry(c, via, ret, answer) ==
    [type |-> type, idx |-> idx, name |-> c.name, version |-> c.version,
     via |-> via, ret |-> ret, slept |-> c.slept, requested |-> c.requested,
     answer |-> answer]

\* checkDependencies up to its loop: const packages = await getDependencies(type)
StartPass ==
    /\ pc = "start"
    /\ packages' = GetDependencies(dir, type)
    /\ idx' = 1
    /\ pc' = "loop"
    /\ UNCHANGED <<dir, type, cache, call, result, error, tables, csvFiles,
                   lookups, netCalls, netCompleted, delayElapsed, assignments>>

\* The loop takes the next record and calls fetchLicenseForPackage, which runs
\* to its first await: a cache hit or a local reference returns at once.
CallFetch ==
    /\ pc = "loop"
    /\ idx <= Len(packages)
    /\ LET pkg == packages[idx]
           c   == [name |-> pkg.packageName, version |-> pkg.packageVersion,
                   slept |-> FALSE, requested |-> FALSE]
           key == CacheKey(pkg.packageName, pkg.packageVersion)
           hit == CacheGet(cache, key)
           skipped == JsStr(SkippedMarker(pkg.packageVersion))
       IN  /\ call' = c
           /\ IF Truthy(hit)
              THEN /\ result' = hit
                   /\ cache' = cache
                   /\ pc' = "assign"
                   /\ lookups' = Append(lookups, LookupEntry(c, "cache", hit, NoRequest))
              ELSE IF IsLocalSpecifier(pkg.packageVersion)
              THEN /\ result' = skipped
                   /\ cache' = CachePut(cache, key, skipped)
                   /\ pc' = "assign"
                   /\ lookups' = Append(lookups, LookupEntry(c, "skip", skipped, NoRequest))
              ELSE /\ pc' = AfterCacheMiss
                   /\ UNCHANGED <<result, cache, lookups>>
    /\ UNCHANGED <<dir, type, packages, idx, error, tables, csvFiles,
                   netCalls, netCompleted, delayElapsed, assignments>>

\* await sleep(..., 1001) returns.
Sleep ==
    /\ pc = "sleep"
    /\ pc' = "get"
    /\ call' = [call EXCEPT !.slept = TRUE]
    /\ delayElapsed' = TRUE
    /\ UNCHANGED <<dir, type, packages, idx, cache, result, error, tables,
                   csvFiles, lookups, netCalls, netCompleted, assignments>>

\* axios.get(registryUrl) is issued.
IssueRequest ==
    /\ pc = "get"
    /\ pc' = "inflight"
    /\ call' = [call EXCEPT !.requested = TRUE]
    /\ netCalls' = Append(netCalls, CacheKey(call.name, call.version))
    /\ UNCHANGED <<dir, type, packages, idx, cache, result, error, tables,
                   csvFiles, lookups, netCompleted, delayElapsed, assignments>>

\* axios.get settles, and fetchLicenseForPackage runs to its return.
ReceiveAnswer ==
    /\ pc = "inflight"
    /\ \E answer \in RegistryAnswers :
         LET o   == FetchOutcome(answer)
             key == CacheKey(call.name, call.version)
         IN  /\ cache' = IF o.store THEN CachePut(cache, key, o.value) ELSE cache
             /\ IF o.threw
                THEN /\ pc' = "fatal"
                     /\ error' = "AxiosError"
                     /\ result' = result
                     /\ lookups' = Append(lookups, LookupEntry(call, "network", JsUndefined, answer))
                ELSE /\ pc' = "assign"
                     /\ result' = o.value
                     /\ lookups' = Append(lookups, LookupEntry(call, "network", o.value, answer))
                     /\ error' = error
    /\ netCompleted' = netCompleted + 1
    /\ delayElapsed' = FALSE
    /\ UNCHANGED <<dir, type, packages, idx, call, tables, csvFiles, netCalls,
                   assignments>>

\* The loop body after the await: the license is assigned, an object is
\* replaced by its `type` or ends the run, and the loop moves on.
Assign ==
    /\ pc = "assign"
    /\ LET n == NormalizeLicense(result)
           w == LicenseWrites(result)
       IN  /\ packages' = [packages EXCEPT ![idx] = SetLicense(@, n.value)]
           /\ assignments' = assignments \o
                 [i \in 1..Len(w) |->
                    [type |-> type, idx |-> idx, name |-> packages[idx].packageName,
                     version |-> packages[idx].packageVersion, value |-> w[i]]]
           /\ IF n.threw
              THEN /\ pc' = "fatal"
                   /\ error' = UnrecognizedLicense
                   /\ idx' = idx
              ELSE /\ pc' = "loop"
                   /\ error' = error
                   /\ idx' = NextIndex(idx)
    /\ UNCHANGED <<dir, type, cache, call, result, tables, csvFiles, lookups,
                   netCalls, netCompleted, delayElapsed>>

\* After the loop: console.table(packages), writeCsvFile(packages, type), and
\* the return to init, which starts the next pass or ends.
Report ==
    /\ pc = "loop"
    /\ idx > Len(packages)
    /\ tables' = Append(tables, [type |-> type, data |-> packages])
    /\ IF ToCsvThrows(packages)
       THEN /\ pc' = "fatal"
            /\ error' = EmptyDataTypeError
            /\ UNCHANGED <<csvFiles, type>>
       ELSE /\ csvFiles' = Append(csvFiles, [type |-> type, data |-> packages,
                                             content |-> ToCsv(packages)])
            /\ error' = error
            /\ IF type = "dependencies"
               THEN type' = "devDependencies" /\ pc' = "start"
               ELSE type' = type /\ pc' = "done"
    /\ UNCHANGED <<dir, packages, idx, cache, call, result, lookups, netCalls,
                   netCompleted, delayElapsed, assignments>>

Next ==
    \/ StartPass
    \/ CallFetch
    \/ Sleep
    \/ IssueRequest
    \/ ReceiveAnswer
    \/ Assign
    \/ Report

Spec == Init /\ [][Next]_vars

\* Every await of the run returns: the delay elapses, the registry call
\* settles, and the synchronous code in between runs on.
FairSpec == Spec /\ WF_vars(Next)

-----------------------------------------------------------------------------
(* Vocabulary of the properties *)

\* A string of the form [ERROR: ...
IsErrorMarker(v) == v.tag = "string" /\ StartsWith(v.val, ErrorOpen)

\* A specifier whose first five characters are file: or link: in any case.
HasLocalScheme(v) ==
    /\ Len(v) >= 5
    /\ ToLowerCase(SubSeq(v, 1, 5)) \in {FilePrefix, LinkPrefix}

\* A structured license without a string `type`.
IsObjectWithoutType(v) == v.tag = "object" /\ v.type.tag # "string"

\* Two history entries are lookups of the identical (package, version) pair.
SamePair(a, b) == a.name = b.name /\ a.version = b.version

\* The record k of the current pass has been given its license and the loop
\* has moved past it.
Resolved(k) == k < idx /\ "packageLicense" \in DOMAIN packages[k]

\* A record carries a non-empty string as its license.
HasNonEmptyStringLicense(r) ==
    /\ "packageLicense" \in DOMAIN r
    /\ r.packageLicense.tag = "string"
    /\ r.packageLicense.val # <<>>

\* The license the registry's answer determines, by the contract of the
\* Registry Client: the string, the `type` of a structured license, [BLANK]
\* for none, [ERROR: <status>: <statusText>] for a failed call.
DeterminedLicense(answer) ==
    IF answer.ok
    THEN CASE answer.license.tag = "string" /\ answer.license.val # <<>> ->
                answer.license
           [] answer.license.tag = "object" -> answer.license.type
           [] OTHER -> JsStr(Blank)
    ELSE IF answer.response.tag = "object"
         THEN JsStr(ErrorOpen \o answer.response.status \o <<":"," ">>
                    \o answer.response.statusText \o <<"]">>)
         ELSE JsStr(ErrorOpen \o UndefinedText \o <<":"," ">>
                    \o UndefinedText \o <<"]">>)

\* The manifests of the directory, and the raw entries of a kind they declare,
\* in directory order and then declaration order.
RECURSIVE RawEntries(_, _)
RawEntries(files, kind) ==
    IF files = <<>> THEN <<>>
    ELSE (IF EndsWith(Head(files).filename, JsonExt) /\ kind \in DOMAIN Head(files).data
          THEN Head(files).data[kind] ELSE <<>>)
         \o RawEntries(Tail(files), kind)

-----------------------------------------------------------------------------
(* C1 *)

\* C1: every record of every array handed to the reporting sink (console.table,
\* the CSV file) carries a non-empty string as its packageLicense.
C1_SinkLicensesAreNonEmptyStrings ==
    /\ \A t \in 1..Len(tables) : \A k \in 1..Len(tables[t].data) :
          HasNonEmptyStringLicense(tables[t].data[k])
    /\ \A f \in 1..Len(csvFiles) : \A k \in 1..Len(csvFiles[f].data) :
          HasNonEmptyStringLicense(csvFiles[f].data[k])

-----------------------------------------------------------------------------
(* C2 *)

\* A failed lookup followed by the next lookup of the identical pair.
FailedThenRetried(a, b) ==
    /\ a < b
    /\ SamePair(lookups[a], lookups[b])
    /\ IsErrorMarker(lookups[a].ret)
    /\ \A m \in (a + 1)..(b - 1) : ~SamePair(lookups[a], lookups[m])

\* C2: a lookup that ends in an [ERROR: ...] outcome leaves the cache unchanged
\* and without an entry for its key, and the next lookup of the identical pair
\* performs the delay and a new network request.
C2_ErrorsAreNotCached ==
    /\ [](\A a, b \in 1..Len(lookups) :
            FailedThenRetried(a, b) => lookups[b].slept /\ lookups[b].requested)
    /\ [][(pc = "inflight" /\ pc' = "assign" /\ IsErrorMarker(result')) =>
            /\ cache' = cache
            /\ CacheKey(call.name, call.version) \notin DOMAIN cache']_vars

C2_Witness ==
    \E a, b \in 1..Len(lookups) :
        FailedThenRetried(a, b) /\ lookups[b].requested

-----------------------------------------------------------------------------
(* C3 *)

\* C3 as stated: of two lookups of the identical pair at most one issues a
\* network call, and the second returns the value of the first without delay.
C3_AtMostOneNetworkCallPerPair ==
    \A a, b \in 1..Len(lookups) :
        (a < b /\ SamePair(lookups[a], lookups[b])) =>
            /\ ~(lookups[a].requested /\ lookups[b].requested)
            /\ ~lookups[b].slept
            /\ lookups[b].ret = lookups[a].ret

\* C3, amended: once a lookup of a pair has ended in an outcome other than
\* [ERROR: ...], every later lookup of the identical pair is answered from the
\* cache: no network call, no delay, and the identical value.
C3_CacheIdempotenceAfterSuccess ==
    \A a, b \in 1..Len(lookups) :
        (a < b /\ SamePair(lookups[a], lookups[b]) /\ ~IsErrorMarker(lookups[a].ret)) =>
            /\ lookups[b].via = "cache"
            /\ ~lookups[b].requested
            /\ ~lookups[b].slept
            /\ lookups[b].ret = lookups[a].ret

C3_Witness ==
    \E a, b \in 1..Len(lookups) :
        /\ a < b
        /\ SamePair(lookups[a], lookups[b])
        /\ lookups[a].via = "network"
        /\ ~IsErrorMarker(lookups[a].ret)
        /\ lookups[b].via = "cache"

-----------------------------------------------------------------------------
(* C4 *)

\* C4: a network request that follows the completion of another one is issued
\* only after a full delay has elapsed since that completion.
C4_DelayBetweenRequests ==
    [][(pc # "inflight" /\ pc' = "inflight" /\ netCompleted > 0) => delayElapsed]_vars

C4_Witness == pc = "inflight" /\ netCompleted > 0 /\ type = "devDependencies"

-----------------------------------------------------------------------------
(* C5 *)

\* C5: a call whose version specifier begins with file: or link: in any case
\* returns [SKIPPED: <specifier>] and neither sleeps nor issues a request.
C5_LocalSpecifiersAreSkipped ==
    /\ \A k \in 1..Len(lookups) :
          HasLocalScheme(lookups[k].version) =>
             /\ lookups[k].ret = JsStr(SkippedOpen \o lookups[k].version \o <<"]">>)
             /\ ~lookups[k].slept
             /\ ~lookups[k].requested
    /\ pc \in {"sleep", "get", "inflight"} => ~HasLocalScheme(call.version)

C5_Witness ==
    \E k \in 1..Len(lookups) :
        /\ lookups[k].version = LinkBarUpper
        /\ lookups[k].via = "skip"

-----------------------------------------------------------------------------
(* C6 *)

\* C6: a manifest specifier that begins with file: or link: is kept as the
\* record's packageVersion, whatever follows the scheme, and the record's
\* license resolves to [SKIPPED: <specifier>].
C6_LocalSpecifiersAreNotCoerced ==
    pc # "start" =>
        \A k \in 1..Len(packages) :
            LET raw == RawEntries(dir, type)[k].version
            IN  HasLocalScheme(raw) =>
                   /\ packages[k].packageVersion = raw
                   /\ Resolved(k) =>
                         packages[k].packageLicense = JsStr(SkippedOpen \o raw \o <<"]">>)

-----------------------------------------------------------------------------
(* C7 *)

\* Record b follows record a in the sequence of one pass, a's lookup failed and
\* b's lookup went to the registry.
FailedThenNext(a, b) ==
    /\ lookups[a].type = lookups[b].type
    /\ lookups[b].idx = lookups[a].idx + 1
    /\ IsErrorMarker(lookups[a].ret)
    /\ lookups[b].via = "network"

\* C7: a failed remote call gives the record an [ERROR: ...] marker and the run
\* goes on to the next record, which receives the license its own answer
\* determines.
C7_ErrorIsolation ==
    /\ [](\A k \in 1..Len(lookups) :
            (lookups[k].requested /\ ~lookups[k].answer.ok) => IsErrorMarker(lookups[k].ret))
    /\ [](\A a, b \in 1..Len(lookups) :
            (FailedThenNext(a, b) /\ lookups[b].type = type /\ Resolved(lookups[b].idx)) =>
                packages[lookups[b].idx].packageLicense = DeterminedLicense(lookups[b].answer))
    /\ [][(pc = "assign" /\ IsErrorMarker(result)) =>
            /\ pc' = "loop"
            /\ idx' = idx + 1
            /\ error' = "none"
            /\ packages'[idx].packageLicense = result]_vars

C7_Witness ==
    \E a, b \in 1..Len(lookups) :
        /\ FailedThenNext(a, b)
        /\ lookups[b].type = type
        /\ Resolved(lookups[b].idx)
        /\ lookups[b].answer.ok
        /\ packages[lookups[b].idx].packageLicense = JsStr(Mit)

-----------------------------------------------------------------------------
(* C8 *)

\* C8: a structured license without a string `type` ends the run at that
\* record: no later record is looked up, no CSV is written for the kind in
\* progress, the next kind is not started; and a CSV holds only records that
\* were all resolved.
C8_FatalOnUnrecognizedLicense ==
    /\ [](\A f \in 1..Len(csvFiles) : \A k \in 1..Len(csvFiles[f].data) :
            /\ "packageLicense" \in DOMAIN csvFiles[f].data[k]
            /\ csvFiles[f].data[k].packageLicense.tag = "string")
    /\ []((pc = "fatal" /\ error = UnrecognizedLicense) =>
            /\ \A k \in (idx + 1)..Len(packages) : "packageLicense" \notin DOMAIN packages[k]
            /\ \A f \in 1..Len(csvFiles) : csvFiles[f].type # type)
    /\ [][(pc = "assign" /\ IsObjectWithoutType(result)) =>
            /\ pc' = "fatal"
            /\ idx' = idx
            /\ csvFiles' = csvFiles
            /\ type' = type]_vars
    /\ [][pc # "fatal"]_vars

C8_Witness ==
    /\ pc = "fatal"
    /\ error = UnrecognizedLicense
    /\ type = "dependencies"
    /\ idx < Len(packages)
    /\ csvFiles = <<>>

-----------------------------------------------------------------------------
(* C9 *)

\* C9: a structured license with a string `type` makes the record's license
\* exactly that string, and the run continues with the next record.
C9_TypeIsPromoted ==
    [][(pc = "assign" /\ result.tag = "object" /\ result.type.tag = "string") =>
          /\ packages'[idx].packageLicense = result.type
          /\ pc' = "loop"
          /\ idx' = idx + 1
          /\ error' = "none"]_vars

C9_Witness ==
    \E k \in 1..Len(lookups) :
        /\ lookups[k].answer = Fulfilled(JsObj(JsStr(Isc)))
        /\ lookups[k].type = type
        /\ Resolved(lookups[k].idx)
        /\ packages[lookups[k].idx].packageLicense = JsStr(Isc)
        /\ pc = "loop"

-----------------------------------------------------------------------------
(* C10 *)

\* C10: when a manifest lacks the requested kind, it contributes no record and
\* the pass is not aborted by it: the pass has exactly the records of the
\* manifests that declare the kind, and nothing but an unrecognized structured
\* license ends it with an error.
C10_MissingKindDoesNotAbort ==
    (/\ pc # "start"
     /\ \E i \in 1..Len(dir) :
           EndsWith(dir[i].filename, JsonExt) /\ type \notin DOMAIN dir[i].data) =>
        /\ Len(packages) = Len(RawEntries(dir, type))
        /\ pc = "fatal" => error = UnrecognizedLicense

-----------------------------------------------------------------------------
(* C11 *)

\* The (project, package) pairs the manifests of the directory declare for a
\* kind, in directory order and then declaration order.
RECURSIVE DeclaredOrder(_, _)
DeclaredOrder(files, kind) ==
    IF files = <<>> THEN <<>>
    ELSE LET f == Head(files)
             n == Len(f.filename)
         IN  (IF EndsWith(f.filename, JsonExt) /\ kind \in DOMAIN f.data
              THEN [i \in 1..Len(f.data[kind]) |->
                      [project |-> SubSeq(f.filename, 1, n - 5),
                       name |-> f.data[kind][i].name]]
              ELSE <<>>)
             \o DeclaredOrder(Tail(files), kind)

\* The (project, package) pairs of an array of records, in its order.
OrderOf(data) ==
    [k \in 1..Len(data) |->
        [project |-> data[k].projectName, name |-> data[k].packageName]]

\* C11: the records of a pass are, from extraction to the reporting step and
\* the return, exactly the declared (manifest, package) entries of the kind, in
\* directory order and then declaration order.
C11_OrderIsPreserved ==
    /\ pc # "start" => OrderOf(packages) = DeclaredOrder(dir, type)
    /\ \A t \in 1..Len(tables) :
          OrderOf(tables[t].data) = DeclaredOrder(dir, tables[t].type)
    /\ \A f \in 1..Len(csvFiles) :
          OrderOf(csvFiles[f].data) = DeclaredOrder(dir, csvFiles[f].type)

C11_Witness ==
    /\ Len(csvFiles) >= 1
    /\ Len(csvFiles[1].data) = 4
    /\ csvFiles[1].data[1].projectName # csvFiles[1].data[4].projectName

-----------------------------------------------------------------------------
(* C12 *)

\* The completed lookups of the pass in progress.
LookupsOfPass ==
    LET InPass(e) == e.type = type
    IN  SelectSeq(lookups, InPass)

\* C12: at most one request is in flight; the lookups of a pass are those of
\* its records 1, 2, 3, ... in that order, one each; and a lookup starts only
\* when every earlier record has its license and no later one has.
C12_SequentialResolution ==
    /\ [](netCompleted <= Len(netCalls) /\ Len(netCalls) <= netCompleted + 1)
    /\ [](\A k \in 1..Len(LookupsOfPass) : LookupsOfPass[k].idx = k)
    /\ [](\A f \in 1..Len(csvFiles) :
            LET Of(e) == e.type = csvFiles[f].type
            IN  Len(SelectSeq(lookups, Of)) = Len(csvFiles[f].data))
    /\ [][(pc = "loop" /\ pc' # "loop" /\ idx <= Len(packages)) =>
            /\ Len(LookupsOfPass) = idx - 1
            /\ \A k \in 1..Len(packages) :
                  ("packageLicense" \in DOMAIN packages[k]) <=> (k < idx)]_vars

C12_Witness ==
    /\ pc = "inflight"
    /\ idx = 3
    /\ Len(LookupsOfPass) = 2

-----------------------------------------------------------------------------
(* C13 *)

\* C13: a cache hit returns a value that an earlier lookup of the identical
\* (package, version) pair returned; the first lookup of a pair whose specifier
\* is no local reference goes to the registry, whatever is cached for the same
\* package in another version or for another package in the same version.
C13_CacheKeyedByExactPair ==
    \A b \in 1..Len(lookups) :
        /\ lookups[b].via = "cache" =>
              \E a \in 1..(b - 1) :
                  SamePair(lookups[a], lookups[b]) /\ lookups[a].ret = lookups[b].ret
        /\ (/\ ~HasLocalScheme(lookups[b].version)
            /\ \A a \in 1..(b - 1) : ~SamePair(lookups[a], lookups[b])) =>
              lookups[b].via = "network" /\ lookups[b].requested

C13_Witness ==
    /\ \E a, b \in 1..Len(lookups) :
          /\ a < b
          /\ lookups[a].name = lookups[b].name
          /\ lookups[a].version # lookups[b].version
          /\ lookups[a].via = "network" /\ ~IsErrorMarker(lookups[a].ret)
          /\ lookups[b].via = "network"
    /\ \E a, b \in 1..Len(lookups) :
          /\ a < b
          /\ lookups[a].name # lookups[b].name
          /\ lookups[a].version = lookups[b].version
          /\ lookups[a].via = "network" /\ ~IsErrorMarker(lookups[a].ret)
          /\ lookups[b].via = "network"

-----------------------------------------------------------------------------
(* C14 *)

\* C14: every value held in the cache is a string.
C14_CacheValuesAreStrings ==
    \A key \in DOMAIN cache : cache[key].tag = "string"

-----------------------------------------------------------------------------
(* C15 *)

\* A pair resolved by the registry in the 'dependencies' pass and looked up
\* again in the 'devDependencies' pass.
ResolvedThenLookedUpInNextPass(a, b) ==
    /\ a < b
    /\ SamePair(lookups[a], lookups[b])
    /\ lookups[a].type = "dependencies"
    /\ lookups[b].type = "devDependencies"
    /\ lookups[a].via = "network"
    /\ ~IsErrorMarker(lookups[a].ret)

\* C15: an entry of the cache is never removed and never changes, and a pair
\* resolved in the first pass is answered from the cache in the second.
C15_CacheOnlyGrows ==
    /\ [](\A a, b \in 1..Len(lookups) :
            ResolvedThenLookedUpInNextPass(a, b) =>
                lookups[b].via = "cache" /\ lookups[b].ret = lookups[a].ret)
    /\ [][\A key \in DOMAIN cache :
            key \in DOMAIN cache' /\ cache'[key] = cache[key]]_vars

C15_Witness ==
    \E a, b \in 1..Len(lookups) :
        /\ ResolvedThenLookedUpInNextPass(a, b)
        /\ lookups[b].via = "cache"
        /\ Cardinality(DOMAIN cache) >= 3

-----------------------------------------------------------------------------
(* C16 *)

\* The text of [ERROR: <status>: <statusText>] for a rejection, with
\* "undefined" for what a rejection without response does not carry.
ErrorTextOf(response) ==
    IF response.tag = "object"
    THEN ErrorOpen \o response.status \o <<":"," ">> \o response.statusText \o <<"]">>
    ELSE ErrorOpen \o UndefinedText \o <<":"," ">> \o UndefinedText \o <<"]">>

\* C16: a lookup that goes to the registry always returns: the plain string
\* license of a successful answer, [BLANK] when the answer declares none,
\* [ERROR: <status>: <statusText>] when the call fails, with or without a
\* response.
C16_FetchResultByAnswer ==
    /\ error # "AxiosError"
    /\ netCompleted = Cardinality({k \in 1..Len(lookups) : lookups[k].via = "network"})
    /\ \A k \in 1..Len(lookups) :
          LET e == lookups[k]
          IN  e.via = "network" =>
                /\ (e.answer.ok /\ e.answer.license.tag = "string"
                                /\ e.answer.license.val # <<>>) =>
                       e.ret = e.answer.license
                /\ (e.answer.ok /\ ~Truthy(e.answer.license)) =>
                       e.ret = JsStr(Blank)
                /\ ~e.answer.ok => e.ret = JsStr(ErrorTextOf(e.answer.response))

C16_Witness ==
    /\ \E k \in 1..Len(lookups) :
          /\ lookups[k].answer = Rejected(JsUndefined)
          /\ lookups[k].requested
          /\ lookups[k].ret = JsStr(ErrorOpen \o UndefinedText \o <<":"," ">>
                                    \o UndefinedText \o <<"]">>)
    /\ \E k \in 1..Len(lookups) :
          /\ lookups[k].answer = Fulfilled(JsUndefined)
          /\ lookups[k].ret = JsStr(Blank)
    /\ \E k \in 1..Len(lookups) :
          /\ lookups[k].answer = Fulfilled(JsStr(Mit))
          /\ lookups[k].ret = JsStr(Mit)

-----------------------------------------------------------------------------
(* C17 *)

RECURSIVE FirstIndexOf(_, _, _)
\* The first position from i on where text holds the character, 0 when none.
FirstIndexOf(text, char, i) ==
    IF i > Len(text) THEN 0
    ELSE IF text[i] = char THEN i
    ELSE FirstIndexOf(text, char, i + 1)

RECURSIVE SplitOn(_, _)
\* What a reader of the file does: text.split(char)
SplitOn(text, char) ==
    LET at == FirstIndexOf(text, char, 1)
    IN  IF at = 0 THEN <<text>>
        ELSE <<SubSeq(text, 1, at - 1)>> \o SplitOn(SubSeq(text, at + 1, Len(text)), char)

Contains(text, char) == FirstIndexOf(text, char, 1) # 0

\* The field values of a record, in declaration order, as texts.
FieldValues(record) ==
    [i \in 1..Len(FieldOrder) |->
        IF FieldOrder[i] = "packageLicense"
        THEN record.packageLicense.val
        ELSE record[FieldOrder[i]]]

\* The content of a written file read back: the first line is the field
\* names, and line i + 1 splits into the field values of record i.
RoundTrips(file) ==
    LET lines == SplitOn(file.content, "\n")
    IN  /\ lines[1] = Join([i \in 1..Len(FieldOrder) |-> FieldText(FieldOrder[i])], <<",">>)
        /\ Len(lines) = 1 + Len(file.data)
        /\ \A i \in 1..Len(file.data) :
              SplitOn(lines[i + 1], ",") = FieldValues(file.data[i])

\* No field value of the records holds a comma or a line break.
NoSeparators(data) ==
    \A i \in 1..Len(data) : \A j \in 1..Len(FieldOrder) :
        /\ ~Contains(FieldValues(data[i])[j], ",")
        /\ ~Contains(FieldValues(data[i])[j], "\n")

\* C17 as stated: every written CSV file reads back to its records.
C17_CsvRoundTrip ==
    \A f \in 1..Len(csvFiles) : RoundTrips(csvFiles[f])

\* C17, amended: a written CSV file reads back to its records whenever no
\* field value holds a comma or a line break (toCsv escapes nothing).
C17_CsvRoundTripWithoutSeparators ==
    \A f \in 1..Len(csvFiles) :
        NoSeparators(csvFiles[f].data) => RoundTrips(csvFiles[f])

C17_Witness ==
    \E f \in 1..Len(csvFiles) :
        /\ Len(csvFiles[f].data) >= 3
        /\ NoSeparators(csvFiles[f].data)
        /\ RoundTrips(csvFiles[f])
        /\ \E i \in 1..Len(csvFiles[f].data) :
              csvFiles[f].data[i].packageLicense = JsStr(Isc)

-----------------------------------------------------------------------------
(* C18 *)

\* The writes of packageLicense to the record idx of the pass of a kind.
WritesTo(kind, i) ==
    LET Hits(w) == w.type = kind /\ w.idx = i
    IN  SelectSeq(assignments, Hits)

WrittenRecords == {<<assignments[a].type, assignments[a].idx>> : a \in 1..Len(assignments)}

\* What resolution must leave alone in a record.
Identity(record) ==
    [f \in {"projectName", "packageName", "packageVersion"} \cap DOMAIN record |->
        record[f]]

\* C18 as stated: no record is written more than once.
C18_EachRecordMutatedOnce ==
    \A r \in WrittenRecords : Len(WritesTo(r[1], r[2])) = 1

\* C18, amended: a record's packageLicense is assigned once with the result
\* of the lookup and, only when that result is an object whose `type` is a
\* string, once more with that type, and never again; a step of the
\* resolution changes at most the record the loop is at, and of that record
\* neither projectName nor packageName nor packageVersion.
C18_RecordWrites ==
    /\ [](\A r \in WrittenRecords :
            LET w == WritesTo(r[1], r[2])
            IN  IF w[1].value.tag = "object" /\ w[1].value.type.tag = "string"
                THEN Len(w) = 2 /\ w[2].value = w[1].value.type
                ELSE Len(w) = 1)
    /\ [][pc # "start" =>
            /\ Len(packages') = Len(packages)
            /\ \A j \in 1..Len(packages) :
                  /\ Identity(packages'[j]) = Identity(packages[j])
                  /\ DOMAIN Identity(packages'[j]) =
                        {"projectName", "packageName", "packageVersion"}
                  /\ (j # idx \/ pc # "assign") => packages'[j] = packages[j]]_vars

C18_Witness ==
    /\ pc = "done"
    /\ \E r \in WrittenRecords : Len(WritesTo(r[1], r[2])) = 2
    /\ \E r \in WrittenRecords : Len(WritesTo(r[1], r[2])) = 1

-----------------------------------------------------------------------------
(* C19 *)

\* The license a record ends with: the last value written to it.
FinalLicense(kind, i) ==
    LET w == WritesTo(kind, i) IN w[Len(w)].value

\* a was answered by the registry with success, b is a later lookup of the
\* same pair, and both records have their license.
AnsweredThenLookedUpAgain(a, b) ==
    /\ a < b
    /\ SamePair(lookups[a], lookups[b])
    /\ lookups[a].via = "network"
    /\ lookups[a].answer.ok
    /\ <<lookups[a].type, lookups[a].idx>> \in WrittenRecords
    /\ <<lookups[b].type, lookups[b].idx>> \in WrittenRecords

\* C19: a record whose pair was answered by the registry before, with a
\* string, an object with `type` or no license, is answered from the cache
\* and ends with the same packageLicense as the first record of the pair.
C19_SameLicenseFromCache ==
    \A a, b \in 1..Len(lookups) :
        AnsweredThenLookedUpAgain(a, b) =>
            /\ lookups[b].via = "cache"
            /\ FinalLicense(lookups[b].type, lookups[b].idx) =
                  FinalLicense(lookups[a].type, lookups[a].idx)
            /\ FinalLicense(lookups[b].type, lookups[b].idx).tag = "string"

C19_Witness ==
    \E a, b \in 1..Len(lookups) :
        /\ AnsweredThenLookedUpAgain(a, b)
        /\ lookups[a].answer.license = JsObj(JsStr(Isc))
        /\ lookups[b].ret = JsObj(JsStr(Isc))
        /\ FinalLicense(lookups[a].type, lookups[a].idx) = JsStr(Isc)
        /\ FinalLicense(lookups[b].type, lookups[b].idx) = JsStr(Isc)

-----------------------------------------------------------------------------
(* C20 *)

\* The run is over: init has returned, or an error has left it.
Ended == pc \in {"done", "fatal"}

\* The records of a pass that have been looked up.
LookedUp(kind) == {lookups[k].idx : k \in {j \in 1..Len(lookups) : lookups[j].type = kind}}

\* C20: when every delay and every registry call returns, the run ends; at
\* its end each pass has looked up all of its records and reported, or an
\* error has stopped the run; no record is looked up twice and no lookup
\* calls the registry twice.
C20_RunEnds ==
    /\ <>Ended
    /\ [](pc = "done" =>
            /\ Len(tables) = 2 /\ Len(csvFiles) = 2
            /\ \A f \in 1..2 :
                  LookedUp(csvFiles[f].type) = 1..Len(csvFiles[f].data))
    /\ [](pc = "fatal" => error # "none")
    /\ [](\A a, b \in 1..Len(lookups) :
            (lookups[a].type = lookups[b].type /\ lookups[a].idx = lookups[b].idx)
                => a = b)
    /\ [](Len(netCalls) <= Len(lookups) + (IF pc = "inflight" THEN 1 ELSE 0))

C20_Witness ==
    /\ pc = "done"
    /\ Len(csvFiles) = 2
    /\ Len(lookups) >= 5
    /\ Len(netCalls) >= 2

====
